---------------------------- MODULE Spec2Model ----------------------------
(***************************************************************************)
(* Model of the 6DOF robotic arm torque and power calculator               *)
(* (lib/calculations.ts, performCalculations) and of the page that calls   *)
(* it (app/page.tsx, Home; CalculatorForm and ResultsTable).  Spec applies *)
(* performCalculations to an input; PageSpec runs the handlers of the page.*)
(*                                                                         *)
(* Numbers.  The source computes with IEEE doubles.  The model computes    *)
(* with exact arithmetic: a number is a polynomial                         *)
(*     c + cg*g + cp*pi + cgp*g*pi                                         *)
(* in the two symbolic constants g and pi of the source, with rational     *)
(* coefficients <<numerator, denominator>> kept in lowest terms.  Every    *)
(* value the source computes has this form: an input is a plain rational,  *)
(* a weight carries one factor g, a link weight one factor g*pi, and no    *)
(* product of two weights is ever formed.  Rounding is not modelled.       *)
(*                                                                         *)
(* Arrays.  A JavaScript array is a TLA+ sequence; At(arr, i) reads the    *)
(* element at the 0-based index i.                                         *)
(***************************************************************************)
EXTENDS Integers, Sequences, FiniteSets, TLC

\* data, ret, called: the argument of the latest call of performCalculations,
\* the value it returned, and whether a call has been made.
\* form: the values held by the form; results: the results state of Home;
\* edits: the number of onChange events since the form was last reset;
\* event: the handler that ran last.
VARIABLES data, ret, called, form, results, edits, event

vars == <<data, ret, called, form, results, edits, event>>

(***************************************************************************)
(* Rational numbers <<n, d>>, d > 0, gcd(n, d) = 1.                        *)
(***************************************************************************)
Abs(n) == IF n < 0 THEN -n ELSE n

RECURSIVE GCD(_, _)
GCD(m, n) == IF n = 0 THEN m ELSE GCD(n, m % n)

\* n / d in lowest terms, for d > 0
Q(n, d) ==
    IF n = 0 THEN <<0, 1>>
    ELSE LET k == GCD(Abs(n), d) IN <<n \div k, d \div k>>

RZero == <<0, 1>>

RNeg(x) == <<-x[1], x[2]>>

RAdd(x, y) ==
    IF x[1] = 0 THEN y
    ELSE IF y[1] = 0 THEN x
    ELSE LET k == GCD(x[2], y[2])
         IN  Q(x[1] * (y[2] \div k) + y[1] * (x[2] \div k),
               (x[2] \div k) * y[2])

RMul(x, y) ==
    IF x[1] = 0 \/ y[1] = 0 THEN RZero
    ELSE LET k1 == GCD(Abs(x[1]), y[2])
             k2 == GCD(Abs(y[1]), x[2])
         IN  <<(x[1] \div k1) * (y[1] \div k2),
               (x[2] \div k2) * (y[2] \div k1)>>

\* 1 / x for x # 0
RInv(x) == IF x[1] < 0 THEN <<-x[2], -x[1]>> ELSE <<x[2], x[1]>>

RSign(x) == IF x[1] < 0 THEN -1 ELSE IF x[1] = 0 THEN 0 ELSE 1

RLt(x, y) == x[1] * y[2] < y[1] * x[2]

(***************************************************************************)
(* Numbers: <<c, cg, cp, cgp>> stands for c + cg*g + cp*pi + cgp*g*pi.     *)
(***************************************************************************)
Basis == 1..4

Num(n, d) == [k \in Basis |-> IF k = 1 THEN Q(n, d) ELSE RZero]

Whole(n) == Num(n, 1)

Zero == Whole(0)

\* const g = 9.80665
g == [k \in Basis |-> IF k = 2 THEN <<1, 1>> ELSE RZero]

\* const pi = 3.141592653589793
pi == [k \in Basis |-> IF k = 3 THEN <<1, 1>> ELSE RZero]

IsPlain(x) == \A k \in Basis \ {1} : x[k] = RZero

Add(x, y) == [k \in Basis |-> RAdd(x[k], y[k])]

Neg(x) == [k \in Basis |-> RNeg(x[k])]

Sub(x, y) == Add(x, Neg(y))

\* the pairs of basis elements whose product is the basis element k
Factors(k) ==
    IF k = 1 THEN << <<1, 1>> >>
    ELSE IF k = 4 THEN << <<1, 4>>, <<4, 1>>, <<2, 3>>, <<3, 2>> >>
    ELSE << <<1, k>>, <<k, 1>> >>

RECURSIVE Dot(_, _, _)
Dot(x, y, pairs) ==
    IF pairs = <<>> THEN RZero
    ELSE RAdd(RMul(x[Head(pairs)[1]], y[Head(pairs)[2]]),
              Dot(x, y, Tail(pairs)))

\* x * y; the terms in g*g and pi*pi are never formed by the source
Mul(x, y) == [k \in Basis |-> Dot(x, y, Factors(k))]

\* x / y for a plain non-zero divisor y (the source divides by 2, by 9550
\* and by a gear ratio it has tested to be non-zero)
Div(x, y) == Mul(x, [k \in Basis |-> IF k = 1 THEN RInv(y[1]) ELSE RZero])

\* x ** 2
Sq(x) == Mul(x, x)

\* Sign of a number whose non-zero coefficients agree in sign (g > 0 and
\* pi > 0); 2 when the coefficients disagree and the sign is not decided
\* by the coefficients alone.
Sign(x) ==
    LET signs == {RSign(x[k]) : k \in Basis} \ {0}
    IN  IF signs = {} THEN 0
        ELSE IF signs = {1} THEN 1
        ELSE IF signs = {-1} THEN -1
        ELSE 2

\* x < y and x <= y: exact on plain numbers (every comparison the source
\* makes is between inputs), otherwise as far as the coefficients decide it
Lt(x, y) ==
    IF IsPlain(x) /\ IsPlain(y) THEN RLt(x[1], y[1])
    ELSE Sign(Sub(y, x)) = 1

Le(x, y) ==
    IF IsPlain(x) /\ IsPlain(y) THEN ~RLt(y[1], x[1])
    ELSE Sign(Sub(y, x)) \in {0, 1}

(***************************************************************************)
(* JavaScript arrays                                                       *)
(***************************************************************************)
At(arr, i) == arr[i + 1]

\* arr.map(f) for a property read f
MapProp(arr, prop) == [k \in 1..Len(arr) |-> arr[k][prop]]

(***************************************************************************)
(* Values returned by performCalculations: MotorResult[] | { error }.      *)
(* A returned value is described by what JavaScript can observe of it:     *)
(* whether it is an array, its elements, its own property names and the    *)
(* value of its error property.  A message is the text of a template       *)
(* literal and the number substituted into it (0: no number).              *)
(***************************************************************************)
Message(text, n) == [text |-> text, n |-> n]

NoMessage == Message("", 0)

\* the MotorResult[] built by push() and returned at the end of the try block
ArrayValue(items) ==
    [isArray |-> TRUE, items |-> items, keys |-> {}, error |-> NoMessage]

\* the object literal { error: ... } returned by the catch block
ErrorObject(message) ==
    [isArray |-> FALSE, items |-> <<>>, keys |-> {"error"}, error |-> message]

\* useState<ResultsState>(null)
Null == [isArray |-> FALSE, items |-> <<>>, keys |-> {}, error |-> NoMessage]

\* catch (error) { return { error: error.message || "An error occurred..." } }
Catch(message) ==
    ErrorObject(IF message.text = ""
                THEN Message("An error occurred during calculations", 0)
                ELSE message)

(***************************************************************************)
(* performCalculations: input validation                                   *)
(***************************************************************************)
NumJoints == 6

\* the header checks with the motor count tested before the link count
CheckHeader_motorsFirst(m_payload, density, links, motors) ==
    IF Lt(m_payload, Zero) THEN Message("Payload mass cannot be negative", 0)
    ELSE IF Lt(density, Zero) THEN Message("Density must be positive", 0)
    ELSE IF Len(motors) # NumJoints
         THEN Message("Exactly 6 motors are required", 0)
    ELSE IF Len(links) # NumJoints
         THEN Message("Exactly 6 links are required", 0)
    ELSE NoMessage

\* the four checks made before the arrays are read
CheckHeader(m_payload, density, links, motors) ==
    IF Lt(m_payload, Zero) THEN Message("Payload mass cannot be negative", 0)
    ELSE IF Lt(density, Zero) THEN Message("Density must be positive", 0)
    ELSE IF Len(links) # NumJoints
         THEN Message("Exactly 6 links are required", 0)
    ELSE IF Len(motors) # NumJoints
         THEN Message("Exactly 6 motors are required", 0)
    ELSE NoMessage

\* const L = links.map(...), ..., const SF = motors.map(...)
Columns(links, motors) ==
    [L       |-> MapProp(links, "length"),
     r       |-> MapProp(links, "radius"),
     m_motor |-> MapProp(motors, "mass"),
     a       |-> MapProp(motors, "bodyLength"),
     M       |-> MapProp(motors, "pivotPosition"),
     rpm     |-> MapProp(motors, "rpm"),
     R       |-> MapProp(motors, "gearRatio"),
     SF      |-> MapProp(motors, "safetyFactor")]

\* the loop body with the 0-based index put in the messages
CheckElement_zeroBased(c, i) ==
    IF Le(At(c.L, i), Zero)
        THEN Message("Link # length must be positive", i)
    ELSE IF Le(At(c.r, i), Zero)
        THEN Message("Link # radius must be positive", i)
    ELSE IF Lt(At(c.m_motor, i), Zero)
        THEN Message("Motor # mass cannot be negative", i)
    ELSE IF Lt(At(c.a, i), Zero)
        THEN Message("Motor # body length cannot be negative", i)
    ELSE IF Lt(At(c.M, i), Zero)
        THEN Message("Motor # pivot position cannot be negative", i)
    ELSE IF Lt(At(c.rpm, i), Zero)
        THEN Message("Motor # RPM cannot be negative", i)
    ELSE IF Lt(At(c.R, i), Zero)
        THEN Message("Motor # gear ratio cannot be negative", i)
    ELSE IF Lt(At(c.SF, i), Whole(1))
        THEN Message("Motor # safety factor must be at least 1", i)
    ELSE NoMessage

\* the loop body with the radius tested before the length
CheckElement_radiusFirst(c, i) ==
    IF Le(At(c.r, i), Zero)
        THEN Message("Link # radius must be positive", i + 1)
    ELSE IF Le(At(c.L, i), Zero)
        THEN Message("Link # length must be positive", i + 1)
    ELSE IF Lt(At(c.m_motor, i), Zero)
        THEN Message("Motor # mass cannot be negative", i + 1)
    ELSE IF Lt(At(c.a, i), Zero)
        THEN Message("Motor # body length cannot be negative", i + 1)
    ELSE IF Lt(At(c.M, i), Zero)
        THEN Message("Motor # pivot position cannot be negative", i + 1)
    ELSE IF Lt(At(c.rpm, i), Zero)
        THEN Message("Motor # RPM cannot be negative", i + 1)
    ELSE IF Lt(At(c.R, i), Zero)
        THEN Message("Motor # gear ratio cannot be negative", i + 1)
    ELSE IF Lt(At(c.SF, i), Whole(1))
        THEN Message("Motor # safety factor must be at least 1", i + 1)
    ELSE NoMessage

\* the loop body with a zero gear ratio rejected
CheckElement_zeroGearRejected(c, i) ==
    IF Le(At(c.L, i), Zero)
        THEN Message("Link # length must be positive", i + 1)
    ELSE IF Le(At(c.r, i), Zero)
        THEN Message("Link # radius must be positive", i + 1)
    ELSE IF Lt(At(c.m_motor, i), Zero)
        THEN Message("Motor # mass cannot be negative", i + 1)
    ELSE IF Lt(At(c.a, i), Zero)
        THEN Message("Motor # body length cannot be negative", i + 1)
    ELSE IF Lt(At(c.M, i), Zero)
        THEN Message("Motor # pivot position cannot be negative", i + 1)
    ELSE IF Lt(At(c.rpm, i), Zero)
        THEN Message("Motor # RPM cannot be negative", i + 1)
    ELSE IF Le(At(c.R, i), Zero)
        THEN Message("Motor # gear ratio cannot be negative", i + 1)
    ELSE IF Lt(At(c.SF, i), Whole(1))
        THEN Message("Motor # safety factor must be at least 1", i + 1)
    ELSE NoMessage

\* the body of the validation loop for one index i: the message of the
\* first throw it reaches, NoMessage when it reaches none
CheckElement(c, i) ==
    IF Le(At(c.L, i), Zero)
        THEN Message("Link # length must be positive", i + 1)
    ELSE IF Le(At(c.r, i), Zero)
        THEN Message("Link # radius must be positive", i + 1)
    ELSE IF Lt(At(c.m_motor, i), Zero)
        THEN Message("Motor # mass cannot be negative", i + 1)
    ELSE IF Lt(At(c.a, i), Zero)
        THEN Message("Motor # body length cannot be negative", i + 1)
    ELSE IF Lt(At(c.M, i), Zero)
        THEN Message("Motor # pivot position cannot be negative", i + 1)
    ELSE IF Lt(At(c.rpm, i), Zero)
        THEN Message("Motor # RPM cannot be negative", i + 1)
    ELSE IF Lt(At(c.R, i), Zero)
        THEN Message("Motor # gear ratio cannot be negative", i + 1)
    ELSE IF Lt(At(c.SF, i), Whole(1))
        THEN Message("Motor # safety factor must be at least 1", i + 1)
    ELSE NoMessage

\* for (let i = 0; i < 6; i++) { ... }
RECURSIVE ValidateArrays(_, _)
ValidateArrays(c, i) ==
    IF i < NumJoints
    THEN LET thrown == CheckElement(c, i)
         IN  IF thrown # NoMessage THEN thrown ELSE ValidateArrays(c, i + 1)
    ELSE NoMessage

(***************************************************************************)
(* performCalculations: joint positions and weights                        *)
(***************************************************************************)
RECURSIVE JointPositions(_, _, _)
JointPositions(Lc, Sc, i) ==
    IF i < NumJoints
    THEN JointPositions(Lc, Append(Sc, Add(At(Sc, i - 1), At(Lc, i))), i + 1)
    ELSE Sc

\* const S = []; S[0] = L[0]; for (i = 1; i < 6; i++) S[i] = S[i-1] + L[i]
S(Lc) == JointPositions(Lc, <<At(Lc, 0)>>, 1)

\* L.map((len, i) => g * density * pi * r[i] ** 2 * len)
W_L(Lc, rc, density) ==
    [k \in 1..Len(Lc) |->
        Mul(Mul(Mul(Mul(g, density), pi), Sq(rc[k])), Lc[k])]

\* m_motor.map((m) => g * m)
W_M(m_motor) == [k \in 1..Len(m_motor) |-> Mul(g, m_motor[k])]

\* g * m_payload
W_P(m_payload) == Mul(g, m_payload)

\* the quantities with the payload weight computed from the density
Quantities_payloadFromDensity(c, m_payload, density) ==
    [L   |-> c.L,  a  |-> c.a,  M  |-> c.M,
     rpm |-> c.rpm, R |-> c.R,  SF |-> c.SF,
     S   |-> S(c.L),
     W_L |-> W_L(c.L, c.r, density),
     W_M |-> W_M(c.m_motor),
     W_P |-> W_P(density)]

\* everything the six per-motor blocks read
Quantities(c, m_payload, density) ==
    [L   |-> c.L,  a  |-> c.a,  M  |-> c.M,
     rpm |-> c.rpm, R |-> c.R,  SF |-> c.SF,
     S   |-> S(c.L),
     W_L |-> W_L(c.L, c.r, density),
     W_M |-> W_M(c.m_motor),
     W_P |-> W_P(m_payload)]

(***************************************************************************)
(* performCalculations: the six hand-expanded per-motor blocks.  Each      *)
(* yields the MotorResult it pushes.                                       *)
(***************************************************************************)
\* Motor 6
Motor6(v) ==
    LET T6_payload == Mul(v.W_P, Sub(At(v.S, 5), At(v.M, 5)))
        T6_L6 ==
            Mul(At(v.W_L, 5), Sub(Sub(At(v.S, 5), At(v.M, 5)), Div(At(v.L,
                5), Whole(2))))
        T6_total == Add(T6_payload, T6_L6)
        T6_sf == Mul(At(v.SF, 5), T6_total)
        T6_before ==
            IF At(v.R, 5) # Zero THEN Div(T6_total, At(v.R, 5)) ELSE Zero
        T6_before_sf == Mul(At(v.SF, 5), T6_before)
        P6 ==
            IF At(v.rpm, 5) # Zero THEN Div(Mul(Mul(T6_before, At(v.rpm, 5)),
                Whole(1000)), Whole(9550)) ELSE Zero
        P6_sf == Mul(At(v.SF, 5), P6)
    IN  [T_total     |-> T6_total,
         T_sf        |-> T6_sf,
         T_before    |-> T6_before,
         T_before_sf |-> T6_before_sf,
         P           |-> P6,
         P_sf        |-> P6_sf]

\* Motor 5 with the factor 1000 of the power conversion left out
Motor5_unscaledPower(v) ==
    LET T5_payload == Mul(v.W_P, Sub(At(v.S, 5), At(v.M, 4)))
        T5_L6 ==
            Mul(At(v.W_L, 5), Sub(Sub(At(v.S, 5), At(v.M, 4)), Div(At(v.L,
                5), Whole(2))))
        T5_M6 ==
            Mul(At(v.W_M, 5), Sub(Add(At(v.M, 5), Div(At(v.a, 5), Whole(2))),
                At(v.M, 4)))
        T5_L5 ==
            Mul(At(v.W_L, 4), Sub(Sub(At(v.S, 4), At(v.M, 4)), Div(At(v.L,
                4), Whole(2))))
        T5_total == Add(Add(Add(T5_payload, T5_L6), T5_M6), T5_L5)
        T5_sf == Mul(At(v.SF, 4), T5_total)
        T5_before ==
            IF At(v.R, 4) # Zero THEN Div(T5_total, At(v.R, 4)) ELSE Zero
        T5_before_sf == Mul(At(v.SF, 4), T5_before)
        P5 ==
            IF At(v.rpm, 4) # Zero THEN Div(Mul(T5_before, At(v.rpm, 4)),
                Whole(9550)) ELSE Zero
        P5_sf == Mul(At(v.SF, 4), P5)
    IN  [T_total     |-> T5_total,
         T_sf        |-> T5_sf,
         T_before    |-> T5_before,
         T_before_sf |-> T5_before_sf,
         P           |-> P5,
         P_sf        |-> P5_sf]

\* Motor 5
Motor5(v) ==
    LET T5_payload == Mul(v.W_P, Sub(At(v.S, 5), At(v.M, 4)))
        T5_L6 ==
            Mul(At(v.W_L, 5), Sub(Sub(At(v.S, 5), At(v.M, 4)), Div(At(v.L,
                5), Whole(2))))
        T5_M6 ==
            Mul(At(v.W_M, 5), Sub(Add(At(v.M, 5), Div(At(v.a, 5), Whole(2))),
                At(v.M, 4)))
        T5_L5 ==
            Mul(At(v.W_L, 4), Sub(Sub(At(v.S, 4), At(v.M, 4)), Div(At(v.L,
                4), Whole(2))))
        T5_total == Add(Add(Add(T5_payload, T5_L6), T5_M6), T5_L5)
        T5_sf == Mul(At(v.SF, 4), T5_total)
        T5_before ==
            IF At(v.R, 4) # Zero THEN Div(T5_total, At(v.R, 4)) ELSE Zero
        T5_before_sf == Mul(At(v.SF, 4), T5_before)
        P5 ==
            IF At(v.rpm, 4) # Zero THEN Div(Mul(Mul(T5_before, At(v.rpm, 4)),
                Whole(1000)), Whole(9550)) ELSE Zero
        P5_sf == Mul(At(v.SF, 4), P5)
    IN  [T_total     |-> T5_total,
         T_sf        |-> T5_sf,
         T_before    |-> T5_before,
         T_before_sf |-> T5_before_sf,
         P           |-> P5,
         P_sf        |-> P5_sf]

\* Motor 4 with the torque multiplied by the gear ratio instead of divided
Motor4_timesGearRatio(v) ==
    LET T4_payload == Mul(v.W_P, Sub(At(v.S, 5), At(v.M, 3)))
        T4_L6 ==
            Mul(At(v.W_L, 5), Sub(Sub(At(v.S, 5), At(v.M, 3)), Div(At(v.L,
                5), Whole(2))))
        T4_L5 ==
            Mul(At(v.W_L, 4), Sub(Sub(At(v.S, 4), At(v.M, 3)), Div(At(v.L,
                4), Whole(2))))
        T4_M6 ==
            Mul(At(v.W_M, 5), Sub(Add(At(v.M, 5), Div(At(v.a, 5), Whole(2))),
                At(v.M, 3)))
        T4_M5 ==
            Mul(At(v.W_M, 4), Sub(Add(At(v.M, 4), Div(At(v.a, 4), Whole(2))),
                At(v.M, 3)))
        T4_L4 ==
            Mul(At(v.W_L, 3), Sub(Sub(At(v.S, 3), At(v.M, 3)), Div(At(v.L,
                3), Whole(2))))
        T4_total ==
            Add(Add(Add(Add(Add(T4_payload, T4_L6), T4_L5), T4_M6), T4_M5),
                T4_L4)
        T4_sf == Mul(At(v.SF, 3), T4_total)
        T4_before ==
            IF At(v.R, 3) # Zero THEN Mul(T4_total, At(v.R, 3)) ELSE Zero
        T4_before_sf == Mul(At(v.SF, 3), T4_before)
        P4 ==
            IF At(v.rpm, 3) # Zero THEN Div(Mul(Mul(T4_before, At(v.rpm, 3)),
                Whole(1000)), Whole(9550)) ELSE Zero
        P4_sf == Mul(At(v.SF, 3), P4)
    IN  [T_total     |-> T4_total,
         T_sf        |-> T4_sf,
         T_before    |-> T4_before,
         T_before_sf |-> T4_before_sf,
         P           |-> P4,
         P_sf        |-> P4_sf]

\* Motor 4
Motor4(v) ==
    LET T4_payload == Mul(v.W_P, Sub(At(v.S, 5), At(v.M, 3)))
        T4_L6 ==
            Mul(At(v.W_L, 5), Sub(Sub(At(v.S, 5), At(v.M, 3)), Div(At(v.L,
                5), Whole(2))))
        T4_L5 ==
            Mul(At(v.W_L, 4), Sub(Sub(At(v.S, 4), At(v.M, 3)), Div(At(v.L,
                4), Whole(2))))
        T4_M6 ==
            Mul(At(v.W_M, 5), Sub(Add(At(v.M, 5), Div(At(v.a, 5), Whole(2))),
                At(v.M, 3)))
        T4_M5 ==
            Mul(At(v.W_M, 4), Sub(Add(At(v.M, 4), Div(At(v.a, 4), Whole(2))),
                At(v.M, 3)))
        T4_L4 ==
            Mul(At(v.W_L, 3), Sub(Sub(At(v.S, 3), At(v.M, 3)), Div(At(v.L,
                3), Whole(2))))
        T4_total ==
            Add(Add(Add(Add(Add(T4_payload, T4_L6), T4_L5), T4_M6), T4_M5),
                T4_L4)
        T4_sf == Mul(At(v.SF, 3), T4_total)
        T4_before ==
            IF At(v.R, 3) # Zero THEN Div(T4_total, At(v.R, 3)) ELSE Zero
        T4_before_sf == Mul(At(v.SF, 3), T4_before)
        P4 ==
            IF At(v.rpm, 3) # Zero THEN Div(Mul(Mul(T4_before, At(v.rpm, 3)),
                Whole(1000)), Whole(9550)) ELSE Zero
        P4_sf == Mul(At(v.SF, 3), P4)
    IN  [T_total     |-> T4_total,
         T_sf        |-> T4_sf,
         T_before    |-> T4_before,
         T_before_sf |-> T4_before_sf,
         P           |-> P4,
         P_sf        |-> P4_sf]

\* Motor 3 with the weight of motor 3 itself counted among the motors
Motor3_ownMotor(v) ==
    LET T3_payload == Mul(v.W_P, Sub(At(v.S, 5), At(v.M, 2)))
        T3_L6 ==
            Mul(At(v.W_L, 5), Sub(Sub(At(v.S, 5), At(v.M, 2)), Div(At(v.L,
                5), Whole(2))))
        T3_L5 ==
            Mul(At(v.W_L, 4), Sub(Sub(At(v.S, 4), At(v.M, 2)), Div(At(v.L,
                4), Whole(2))))
        T3_L4 ==
            Mul(At(v.W_L, 3), Sub(Sub(At(v.S, 3), At(v.M, 2)), Div(At(v.L,
                3), Whole(2))))
        T3_M6 ==
            Mul(At(v.W_M, 5), Sub(Add(At(v.M, 5), Div(At(v.a, 5), Whole(2))),
                At(v.M, 2)))
        T3_M5 ==
            Mul(At(v.W_M, 4), Sub(Add(At(v.M, 4), Div(At(v.a, 4), Whole(2))),
                At(v.M, 2)))
        T3_M4 ==
            Mul(At(v.W_M, 3), Sub(Add(At(v.M, 3), Div(At(v.a, 3), Whole(2))),
                At(v.M, 2)))
        T3_L3 ==
            Mul(At(v.W_L, 2), Sub(Sub(At(v.S, 2), At(v.M, 2)), Div(At(v.L,
                2), Whole(2))))
        T3_M3 ==
            Mul(At(v.W_M, 2), Sub(Add(At(v.M, 2), Div(At(v.a, 2), Whole(2))),
                At(v.M, 2)))
        T3_total ==
            Add(Add(Add(Add(Add(Add(Add(Add(T3_payload, T3_L6), T3_L5),
                T3_L4), T3_M6), T3_M5), T3_M4), T3_M3), T3_L3)
        T3_sf == Mul(At(v.SF, 2), T3_total)
        T3_before ==
            IF At(v.R, 2) # Zero THEN Div(T3_total, At(v.R, 2)) ELSE Zero
        T3_before_sf == Mul(At(v.SF, 2), T3_before)
        P3 ==
            IF At(v.rpm, 2) # Zero THEN Div(Mul(Mul(T3_before, At(v.rpm, 2)),
                Whole(1000)), Whole(9550)) ELSE Zero
        P3_sf == Mul(At(v.SF, 2), P3)
    IN  [T_total     |-> T3_total,
         T_sf        |-> T3_sf,
         T_before    |-> T3_before,
         T_before_sf |-> T3_before_sf,
         P           |-> P3,
         P_sf        |-> P3_sf]

\* Motor 3
Motor3(v) ==
    LET T3_payload == Mul(v.W_P, Sub(At(v.S, 5), At(v.M, 2)))
        T3_L6 ==
            Mul(At(v.W_L, 5), Sub(Sub(At(v.S, 5), At(v.M, 2)), Div(At(v.L,
                5), Whole(2))))
        T3_L5 ==
            Mul(At(v.W_L, 4), Sub(Sub(At(v.S, 4), At(v.M, 2)), Div(At(v.L,
                4), Whole(2))))
        T3_L4 ==
            Mul(At(v.W_L, 3), Sub(Sub(At(v.S, 3), At(v.M, 2)), Div(At(v.L,
                3), Whole(2))))
        T3_M6 ==
            Mul(At(v.W_M, 5), Sub(Add(At(v.M, 5), Div(At(v.a, 5), Whole(2))),
                At(v.M, 2)))
        T3_M5 ==
            Mul(At(v.W_M, 4), Sub(Add(At(v.M, 4), Div(At(v.a, 4), Whole(2))),
                At(v.M, 2)))
        T3_M4 ==
            Mul(At(v.W_M, 3), Sub(Add(At(v.M, 3), Div(At(v.a, 3), Whole(2))),
                At(v.M, 2)))
        T3_L3 ==
            Mul(At(v.W_L, 2), Sub(Sub(At(v.S, 2), At(v.M, 2)), Div(At(v.L,
                2), Whole(2))))
        T3_total ==
            Add(Add(Add(Add(Add(Add(Add(T3_payload, T3_L6), T3_L5), T3_L4),
                T3_M6), T3_M5), T3_M4), T3_L3)
        T3_sf == Mul(At(v.SF, 2), T3_total)
        T3_before ==
            IF At(v.R, 2) # Zero THEN Div(T3_total, At(v.R, 2)) ELSE Zero
        T3_before_sf == Mul(At(v.SF, 2), T3_before)
        P3 ==
            IF At(v.rpm, 2) # Zero THEN Div(Mul(Mul(T3_before, At(v.rpm, 2)),
                Whole(1000)), Whole(9550)) ELSE Zero
        P3_sf == Mul(At(v.SF, 2), P3)
    IN  [T_total     |-> T3_total,
         T_sf        |-> T3_sf,
         T_before    |-> T3_before,
         T_before_sf |-> T3_before_sf,
         P           |-> P3,
         P_sf        |-> P3_sf]

\* Motor 2 with the safety factor of motor 3 applied to the total torque
Motor2_sfOfMotor3(v) ==
    LET T2_payload == Mul(v.W_P, Sub(At(v.S, 5), At(v.M, 1)))
        T2_L6 ==
            Mul(At(v.W_L, 5), Sub(Sub(At(v.S, 5), At(v.M, 1)), Div(At(v.L,
                5), Whole(2))))
        T2_L5 ==
            Mul(At(v.W_L, 4), Sub(Sub(At(v.S, 4), At(v.M, 1)), Div(At(v.L,
                4), Whole(2))))
        T2_L4 ==
            Mul(At(v.W_L, 3), Sub(Sub(At(v.S, 3), At(v.M, 1)), Div(At(v.L,
                3), Whole(2))))
        T2_L3 ==
            Mul(At(v.W_L, 2), Sub(Sub(At(v.S, 2), At(v.M, 1)), Div(At(v.L,
                2), Whole(2))))
        T2_L2 ==
            Mul(At(v.W_L, 1), Sub(Sub(At(v.S, 1), At(v.M, 1)), Div(At(v.L,
                1), Whole(2))))
        T2_M6 ==
            Mul(At(v.W_M, 5), Sub(Add(At(v.M, 5), Div(At(v.a, 5), Whole(2))),
                At(v.M, 1)))
        T2_M5 ==
            Mul(At(v.W_M, 4), Sub(Add(At(v.M, 4), Div(At(v.a, 4), Whole(2))),
                At(v.M, 1)))
        T2_M4 ==
            Mul(At(v.W_M, 3), Sub(Add(At(v.M, 3), Div(At(v.a, 3), Whole(2))),
                At(v.M, 1)))
        T2_M3 ==
            Mul(At(v.W_M, 2), Sub(Add(At(v.M, 2), Div(At(v.a, 2), Whole(2))),
                At(v.M, 1)))
        T2_total ==
            Add(Add(Add(Add(Add(Add(Add(Add(Add(T2_payload, T2_L6), T2_L5),
                T2_L4), T2_L3), T2_L2), T2_M6), T2_M5), T2_M4), T2_M3)
        T2_sf == Mul(At(v.SF, 2), T2_total)
        T2_before ==
            IF At(v.R, 1) # Zero THEN Div(T2_total, At(v.R, 1)) ELSE Zero
        T2_before_sf == Mul(At(v.SF, 1), T2_before)
        P2 ==
            IF At(v.rpm, 1) # Zero THEN Div(Mul(Mul(T2_before, At(v.rpm, 1)),
                Whole(1000)), Whole(9550)) ELSE Zero
        P2_sf == Mul(At(v.SF, 1), P2)
    IN  [T_total     |-> T2_total,
         T_sf        |-> T2_sf,
         T_before    |-> T2_before,
         T_before_sf |-> T2_before_sf,
         P           |-> P2,
         P_sf        |-> P2_sf]

\* Motor 2
Motor2(v) ==
    LET T2_payload == Mul(v.W_P, Sub(At(v.S, 5), At(v.M, 1)))
        T2_L6 ==
            Mul(At(v.W_L, 5), Sub(Sub(At(v.S, 5), At(v.M, 1)), Div(At(v.L,
                5), Whole(2))))
        T2_L5 ==
            Mul(At(v.W_L, 4), Sub(Sub(At(v.S, 4), At(v.M, 1)), Div(At(v.L,
                4), Whole(2))))
        T2_L4 ==
            Mul(At(v.W_L, 3), Sub(Sub(At(v.S, 3), At(v.M, 1)), Div(At(v.L,
                3), Whole(2))))
        T2_L3 ==
            Mul(At(v.W_L, 2), Sub(Sub(At(v.S, 2), At(v.M, 1)), Div(At(v.L,
                2), Whole(2))))
        T2_L2 ==
            Mul(At(v.W_L, 1), Sub(Sub(At(v.S, 1), At(v.M, 1)), Div(At(v.L,
                1), Whole(2))))
        T2_M6 ==
            Mul(At(v.W_M, 5), Sub(Add(At(v.M, 5), Div(At(v.a, 5), Whole(2))),
                At(v.M, 1)))
        T2_M5 ==
            Mul(At(v.W_M, 4), Sub(Add(At(v.M, 4), Div(At(v.a, 4), Whole(2))),
                At(v.M, 1)))
        T2_M4 ==
            Mul(At(v.W_M, 3), Sub(Add(At(v.M, 3), Div(At(v.a, 3), Whole(2))),
                At(v.M, 1)))
        T2_M3 ==
            Mul(At(v.W_M, 2), Sub(Add(At(v.M, 2), Div(At(v.a, 2), Whole(2))),
                At(v.M, 1)))
        T2_total ==
            Add(Add(Add(Add(Add(Add(Add(Add(Add(T2_payload, T2_L6), T2_L5),
                T2_L4), T2_L3), T2_L2), T2_M6), T2_M5), T2_M4), T2_M3)
        T2_sf == Mul(At(v.SF, 1), T2_total)
        T2_before ==
            IF At(v.R, 1) # Zero THEN Div(T2_total, At(v.R, 1)) ELSE Zero
        T2_before_sf == Mul(At(v.SF, 1), T2_before)
        P2 ==
            IF At(v.rpm, 1) # Zero THEN Div(Mul(Mul(T2_before, At(v.rpm, 1)),
                Whole(1000)), Whole(9550)) ELSE Zero
        P2_sf == Mul(At(v.SF, 1), P2)
    IN  [T_total     |-> T2_total,
         T_sf        |-> T2_sf,
         T_before    |-> T2_before,
         T_before_sf |-> T2_before_sf,
         P           |-> P2,
         P_sf        |-> P2_sf]

\* Motor 1
Motor1(v) ==
    LET T1_payload == Mul(v.W_P, Sub(At(v.S, 5), At(v.M, 0)))
        T1_L6 ==
            Mul(At(v.W_L, 5), Sub(Sub(At(v.S, 5), At(v.M, 0)), Div(At(v.L,
                5), Whole(2))))
        T1_L5 ==
            Mul(At(v.W_L, 4), Sub(Sub(At(v.S, 4), At(v.M, 0)), Div(At(v.L,
                4), Whole(2))))
        T1_L4 ==
            Mul(At(v.W_L, 3), Sub(Sub(At(v.S, 3), At(v.M, 0)), Div(At(v.L,
                3), Whole(2))))
        T1_L3 ==
            Mul(At(v.W_L, 2), Sub(Sub(At(v.S, 2), At(v.M, 0)), Div(At(v.L,
                2), Whole(2))))
        T1_L2 ==
            Mul(At(v.W_L, 1), Sub(Sub(At(v.S, 1), At(v.M, 0)), Div(At(v.L,
                1), Whole(2))))
        T1_L1 ==
            Mul(At(v.W_L, 0), Sub(Sub(At(v.S, 0), At(v.M, 0)), Div(At(v.L,
                0), Whole(2))))
        T1_M6 ==
            Mul(At(v.W_M, 5), Sub(Add(At(v.M, 5), Div(At(v.a, 5), Whole(2))),
                At(v.M, 0)))
        T1_M5 ==
            Mul(At(v.W_M, 4), Sub(Add(At(v.M, 4), Div(At(v.a, 4), Whole(2))),
                At(v.M, 0)))
        T1_M4 ==
            Mul(At(v.W_M, 3), Sub(Add(At(v.M, 3), Div(At(v.a, 3), Whole(2))),
                At(v.M, 0)))
        T1_M3 ==
            Mul(At(v.W_M, 2), Sub(Add(At(v.M, 2), Div(At(v.a, 2), Whole(2))),
                At(v.M, 0)))
        T1_M2 ==
            Mul(At(v.W_M, 1), Sub(Add(At(v.M, 1), Div(At(v.a, 1), Whole(2))),
                At(v.M, 0)))
        T1_total ==
            Add(Add(Add(Add(Add(Add(Add(Add(Add(Add(Add(T1_payload, T1_L6),
                T1_L5), T1_L4), T1_L3), T1_L2), T1_L1), T1_M6), T1_M5),
                T1_M4), T1_M3), T1_M2)
        T1_sf == Mul(At(v.SF, 0), T1_total)
        T1_before ==
            IF At(v.R, 0) # Zero THEN Div(T1_total, At(v.R, 0)) ELSE Zero
        T1_before_sf == Mul(At(v.SF, 0), T1_before)
        P1 ==
            IF At(v.rpm, 0) # Zero THEN Div(Mul(Mul(T1_before, At(v.rpm, 0)),
                Whole(1000)), Whole(9550)) ELSE Zero
        P1_sf == Mul(At(v.SF, 0), P1)
    IN  [T_total     |-> T1_total,
         T_sf        |-> T1_sf,
         T_before    |-> T1_before,
         T_before_sf |-> T1_before_sf,
         P           |-> P1,
         P_sf        |-> P1_sf]

\* the six results pushed base joint first
motorResults_baseFirst(v) ==
    <<Motor1(v), Motor2(v), Motor3(v), Motor4(v), Motor5(v), Motor6(v)>>

\* const motorResults = []; followed by the six push() calls in source order
motorResults(v) ==
    <<Motor6(v), Motor5(v), Motor4(v), Motor3(v), Motor2(v), Motor1(v)>>

\* export function performCalculations(data)
performCalculations(d) ==
    LET header == CheckHeader(d.m_payload, d.density, d.links, d.motors)
        c      == Columns(d.links, d.motors)
        thrown == IF header # NoMessage THEN header ELSE ValidateArrays(c, 0)
    IN  IF thrown # NoMessage
        THEN Catch(thrown)
        ELSE ArrayValue(motorResults(Quantities(c, d.m_payload, d.density)))

(***************************************************************************)
(* Inputs.  performCalculations is applied to every input that differs     *)
(* from one of four arms in one field changed to another admitted value,   *)
(* or in one field or element count made invalid, and to every input that  *)
(* differs from MixedArm in up to MaxViolations of the places ComboPlaces  *)
(* made invalid.  A changed value is chosen in one of MaxWays ways.        *)
(***************************************************************************)
MaxViolations == 2

MaxWays == 2

MaxPayload == 2

Link(length, radius) == [length |-> length, radius |-> radius]

Motor(mass, bodyLength, pivotPosition, rpmv, gearRatio, safetyFactor) ==
    [mass |-> mass, bodyLength |-> bodyLength,
     pivotPosition |-> pivotPosition, rpm |-> rpmv,
     gearRatio |-> gearRatio, safetyFactor |-> safetyFactor]

\* the values handleFillDummyValues puts in the form
DummyArm ==
    [m_payload |-> Whole(5),
     density   |-> Whole(2700),
     links     |-> << Link(Num(1, 2), Num(1, 50)),
                      Link(Num(2, 5), Num(1, 50)),
                      Link(Num(3, 10), Num(3, 200)),
                      Link(Num(3, 10), Num(3, 200)),
                      Link(Num(1, 5), Num(1, 100)),
                      Link(Num(1, 10), Num(1, 100)) >>,
     motors    |-> << Motor(Whole(2), Num(1, 10), Zero, Whole(100),
                            Whole(10), Num(3, 2)),
                      Motor(Num(3, 2), Num(2, 25), Num(1, 2), Whole(120),
                            Whole(8), Num(3, 2)),
                      Motor(Num(6, 5), Num(7, 100), Num(9, 10), Whole(150),
                            Whole(6), Num(3, 2)),
                      Motor(Whole(1), Num(3, 50), Num(6, 5), Whole(180),
                            Whole(5), Num(3, 2)),
                      Motor(Num(4, 5), Num(1, 20), Num(3, 2), Whole(200),
                            Whole(4), Num(3, 2)),
                      Motor(Num(1, 2), Num(1, 25), Num(17, 10), Whole(250),
                            Whole(3), Num(3, 2)) >>]

\* useForm({ defaultValues: ... }); handleResetValues resets the form to
\* the same values
defaultValues ==
    [m_payload |-> Zero,
     density   |-> Zero,
     links     |-> [k \in 1..NumJoints |-> Link(Zero, Zero)],
     motors    |-> [k \in 1..NumJoints |->
                       Motor(Zero, Zero, Zero, Zero, Zero, Whole(1))]]

\* an arm whose six joints all differ from one another
MixedArm ==
    [m_payload |-> Whole(5),
     density   |-> Whole(2),
     links     |-> << Link(Whole(3), Num(1, 2)), Link(Whole(2), Num(1, 2)),
                      Link(Whole(2), Num(1, 3)), Link(Whole(1), Num(1, 3)),
                      Link(Whole(1), Num(1, 4)), Link(Whole(1), Num(1, 4)) >>,
     motors    |-> << Motor(Whole(3), Whole(1), Zero, Whole(10),
                            Whole(10), Num(3, 2)),
                      Motor(Whole(2), Whole(1), Whole(3), Whole(12),
                            Whole(8), Whole(2)),
                      Motor(Whole(2), Num(1, 2), Whole(5), Whole(15),
                            Whole(6), Num(5, 4)),
                      Motor(Whole(1), Num(1, 2), Whole(7), Whole(18),
                            Whole(5), Whole(1)),
                      Motor(Whole(1), Num(1, 2), Whole(8), Whole(20),
                            Whole(4), Whole(3)),
                      Motor(Num(1, 2), Num(1, 4), Whole(9), Whole(25),
                            Whole(3), Num(5, 2)) >>]

\* every field at the smallest value the validation admits, except that a
\* link needs a positive length and radius
IdleArm ==
    [m_payload |-> Zero,
     density   |-> Zero,
     links     |-> [k \in 1..NumJoints |-> Link(Whole(1), Whole(1))],
     motors    |-> [k \in 1..NumJoints |->
                       Motor(Zero, Zero, Zero, Zero, Zero, Whole(1))]]

\* an arm the validation admits whose last pivots lie at and beyond the tip
\* (S[5] = 7), with zero gear ratios and zero speeds
OverhungArm ==
    [m_payload |-> Whole(1),
     density   |-> Whole(1),
     links     |-> << Link(Whole(1), Whole(1)), Link(Whole(1), Num(1, 2)),
                      Link(Whole(2), Whole(1)), Link(Whole(1), Whole(1)),
                      Link(Whole(1), Num(1, 2)), Link(Whole(1), Whole(1)) >>,
     motors    |-> << Motor(Whole(1), Zero, Zero, Zero, Zero, Whole(1)),
                      Motor(Zero, Whole(1), Whole(1), Whole(3), Zero,
                            Whole(1)),
                      Motor(Whole(2), Whole(2), Whole(2), Zero, Whole(2),
                            Whole(2)),
                      Motor(Whole(1), Zero, Whole(5), Whole(2), Whole(3),
                            Num(3, 2)),
                      Motor(Zero, Whole(1), Whole(7), Whole(1), Whole(1),
                            Whole(1)),
                      Motor(Whole(1), Whole(1), Whole(9), Whole(4), Whole(5),
                            Whole(4)) >>]

Arms == {DummyArm, MixedArm, IdleArm, OverhungArm}

LinkFields == {"length", "radius"}

MotorFields ==
    {"mass", "bodyLength", "pivotPosition", "rpm", "gearRatio", "safetyFactor"}

\* the places where an input can differ from an arm
Places ==
    {[on |-> "data", i |-> 0, field |-> f] : f \in {"m_payload", "density"}}
    \cup {[on |-> "count", i |-> 0, field |-> f] : f \in {"links", "motors"}}
    \cup {[on |-> "links", i |-> i, field |-> f] :
             i \in 0..(NumJoints - 1), f \in LinkFields}
    \cup {[on |-> "motors", i |-> i, field |-> f] :
             i \in 0..(NumJoints - 1), f \in MotorFields}

FieldPlaces == {p \in Places : p.on # "count"}

\* the places made invalid together: the payload mass, the density, the two
\* counts and the fields of the first three and of the last link and motor
ComboPlaces == {p \in Places : p.i \in {0, 1, 2, NumJoints - 1}}

\* the subsets of s with at most k elements
RECURSIVE UpTo(_, _)
UpTo(s, k) ==
    IF k = 0 THEN {{}}
    ELSE LET smaller == UpTo(s, k - 1)
         IN  smaller \cup {t \cup {e} : t \in smaller, e \in s}

\* a value the validation rejects for the field: way 1 is the largest
\* rejected value of the sample, the further ways are smaller
Invalid(field, way) ==
    IF field \in LinkFields THEN Num(1 - way, 2)
    ELSE IF field = "safetyFactor" THEN Num(10 - way, 10)
    ELSE Num(-way, 10)

\* another value the validation admits for the field: way 1 goes to the
\* least admitted value (a link doubles), the further ways add to the value
Other(field, old, way) ==
    IF way > 1 THEN Add(old, Whole(way - 1))
    ELSE IF field \in LinkFields THEN Mul(old, Whole(2))
    ELSE IF field = "safetyFactor"
        THEN (IF old = Whole(1) THEN Whole(2) ELSE Whole(1))
    ELSE (IF old = Zero THEN Whole(1) ELSE Zero)

\* the value at place p of the input that differs from an arm at the places
\* bad (made invalid) and alt (changed to another admitted value)
ValueAt(p, old, bad, alt, way) ==
    IF p \in bad THEN Invalid(p.field, way)
    ELSE IF p \in alt THEN Other(p.field, old, way)
    ELSE old

\* the number of elements: too few (odd way) or too many (even way) when
\* the count is among the places made invalid
CountOf(name, bad, way) ==
    IF [on |-> "count", i |-> 0, field |-> name] \in bad
    THEN (IF way % 2 = 1 THEN NumJoints - (way + 1) \div 2
                         ELSE NumJoints + way \div 2)
    ELSE NumJoints

Min(m, n) == IF m < n THEN m ELSE n

Variant(arm, bad, alt, way) ==
    [m_payload |->
        ValueAt([on |-> "data", i |-> 0, field |-> "m_payload"],
                arm.m_payload, bad, alt, way),
     density |->
        ValueAt([on |-> "data", i |-> 0, field |-> "density"],
                arm.density, bad, alt, way),
     links |->
        [k \in 1..CountOf("links", bad, way) |->
            [f \in LinkFields |->
                ValueAt([on |-> "links", i |-> k - 1, field |-> f],
                        arm.links[Min(k, NumJoints)][f], bad, alt, way)]],
     motors |->
        [k \in 1..CountOf("motors", bad, way) |->
            [f \in MotorFields |->
                ValueAt([on |-> "motors", i |-> k - 1, field |-> f],
                        arm.motors[Min(k, NumJoints)][f], bad, alt, way)]]]

Ways == 1..MaxWays

Inputs ==
    Arms
    \cup {Variant(arm, {}, {p}, way) :
             arm \in Arms, p \in FieldPlaces, way \in Ways}
    \cup {Variant(arm, {p}, {}, way) :
             arm \in Arms, p \in Places, way \in Ways}
    \cup {Variant(MixedArm, bad, {}, 1) :
             bad \in UpTo(ComboPlaces, MaxViolations)}

(***************************************************************************)
(* The specification: a caller applies performCalculations to an input.    *)
(***************************************************************************)
Init ==
    /\ data \in Inputs
    /\ ret = Null
    /\ called = FALSE
    /\ form = defaultValues
    /\ results = Null
    /\ edits = 0
    /\ event = "load"

\* const calculatedResults = performCalculations(data)
Call ==
    /\ ~called
    /\ ret' = performCalculations(data)
    /\ called' = TRUE
    /\ data' = data
    /\ UNCHANGED <<form, results, edits, event>>

Next == Call

Spec == Init /\ [][Next]_vars

(***************************************************************************)
(* The page (app/page.tsx, Home) and its form (CalculatorForm).  The form  *)
(* always holds six links and six motors; a field holds the number typed   *)
(* into it.                                                                *)
(***************************************************************************)

\* the number of onChange events between two calls of form.reset()
MaxEdits == 1

\* z.number().min(n)
min(x, n) == Le(Whole(n), x)

\* formSchema with the safety factor held to min(0) like the other fields
formSchema_safetyFactorMinZero(values) ==
    /\ min(values.m_payload, 0)
    /\ min(values.density, 0)
    /\ Len(values.links) = NumJoints
    /\ \A k \in 1..Len(values.links) :
          \A f \in LinkFields : min(values.links[k][f], 0)
    /\ Len(values.motors) = NumJoints
    /\ \A k \in 1..Len(values.motors) :
          \A f \in MotorFields : min(values.motors[k][f], 0)

\* const formSchema = z.object({ ... }): TRUE when the values parse
formSchema(values) ==
    /\ min(values.m_payload, 0)
    /\ min(values.density, 0)
    /\ Len(values.links) = NumJoints
    /\ \A k \in 1..Len(values.links) :
          /\ min(values.links[k].length, 0)
          /\ min(values.links[k].radius, 0)
    /\ Len(values.motors) = NumJoints
    /\ \A k \in 1..Len(values.motors) :
          /\ min(values.motors[k].mass, 0)
          /\ min(values.motors[k].bodyLength, 0)
          /\ min(values.motors[k].pivotPosition, 0)
          /\ min(values.motors[k].rpm, 0)
          /\ min(values.motors[k].gearRatio, 0)
          /\ min(values.motors[k].safetyFactor, 1)

\* the value of the field at place p
GetValue(values, p) ==
    IF p.on = "data" THEN values[p.field]
    ELSE values[p.on][p.i + 1][p.field]

\* field.onChange(value) for the field at place p
SetValue(values, p, value) ==
    IF p.on = "data" THEN [values EXCEPT ![p.field] = value]
    ELSE [values EXCEPT ![p.on][p.i + 1][p.field] = value]

\* the fields typed into: the payload mass, the density and the fields of
\* link 1 and motor 1
EditPlaces == {p \in FieldPlaces : p.i = 0}

\* the numbers typed into the field at place p: nothing (read as 0), a
\* number formSchema rejects, or another number the validation admits
Typed(p) ==
    {Zero, Invalid(p.field, MaxWays),
     Other(p.field, GetValue(DummyArm, p), 1)}

\* Number.prototype.toFixed(digits): the decimal text of x with the given
\* number of fraction digits.  The text is named by the number and the
\* digit count; texts of different numbers are kept apart.
toFixed(x, digits) == [toFixed |-> digits, of |-> x]

\* results.reverse().map(...): the rows numbered from the base joint
ResultsTable_baseFirst(value) ==
    [index \in 1..Len(value.items) |->
        LET result == value.items[Len(value.items) + 1 - index]
        IN  << index,
               toFixed(result.T_total, 2), toFixed(result.T_sf, 2),
               toFixed(result.T_before, 2), toFixed(result.T_before_sf, 2),
               toFixed(result.P, 2), toFixed(result.P_sf, 2) >>]

\* results.map((result, index) => <TableRow> ... </TableRow>): the cells of
\* the rows of the table body (index here is the source's index + 1)
ResultsTable(value) ==
    [index \in 1..Len(value.items) |->
        LET result == value.items[index]
        IN  << index,
               toFixed(result.T_total, 2), toFixed(result.T_sf, 2),
               toFixed(result.T_before, 2), toFixed(result.T_before_sf, 2),
               toFixed(result.P, 2), toFixed(result.P_sf, 2) >>]

\* the header row of the exported sheet
Headers ==
    << "Motor", "Torque Total (Nm)", "Torque SF (Nm)", "Torque Before (Nm)",
       "Torque Before SF (Nm)", "Power (W)", "Power SF (W)" >>

\* a value is truthy unless it is null
Truthy(value) == value # Null

\* "error" in value
HasError(value) == "error" \in value.keys

\* const resultData = [...] of handleExportToExcel: the rows written to the
\* sheet "Results" of robotic_arm_results.xlsx
resultData(value) ==
    IF Truthy(value) /\ ~HasError(value)
    THEN <<Headers>> \o
         [i \in 1..Len(value.items) |->
             LET result == value.items[i]
             IN  << i,
                    toFixed(result.T_total, 2), toFixed(result.T_sf, 2),
                    toFixed(result.T_before, 2),
                    toFixed(result.T_before_sf, 2),
                    toFixed(result.P, 2), toFixed(result.P_sf, 2) >>]
    ELSE <<Headers>>

\* what Home renders under the form: the error message, the results table,
\* or nothing.  alert and table hold the rendered element, if any.
Home(value) ==
    IF Truthy(value) /\ HasError(value)
    THEN [alert |-> <<value.error>>, table |-> <<>>]
    ELSE IF Truthy(value)
        THEN [alert |-> <<>>, table |-> <<ResultsTable(value)>>]
    ELSE [alert |-> <<>>, table |-> <<>>]

\* handleCalculate that keeps the list on display when the calculation fails
handleCalculate_keepsList(d) ==
    /\ data' = d
    /\ ret' = performCalculations(d)
    /\ results' = IF results.isArray /\ ~ret'.isArray THEN results ELSE ret'
    /\ called' = TRUE

\* const handleCalculate = (data) => { setResults(performCalculations(data)) }
handleCalculate(d) ==
    /\ data' = d
    /\ ret' = performCalculations(d)
    /\ results' = ret'
    /\ called' = TRUE

PageInit ==
    /\ form = defaultValues
    /\ results = Null
    /\ data = defaultValues
    /\ ret = Null
    /\ called = FALSE
    /\ edits = 0
    /\ event = "load"

\* onChange of an <Input>: field.onChange(parseFloat(e.target.value) || 0)
onChange ==
    \E p \in EditPlaces : \E value \in Typed(p) :
        /\ edits < MaxEdits
        /\ value # GetValue(form, p)
        /\ form' = SetValue(form, p, value)
        /\ edits' = edits + 1
        /\ event' = "change"
        /\ UNCHANGED <<data, ret, called, results>>

\* <form onSubmit={form.handleSubmit(onSubmit)}>: onSubmit, and with it
\* onCalculate, runs when the values parse under formSchema
handleSubmit ==
    /\ event' = "submit"
    /\ UNCHANGED <<form, edits>>
    /\ IF formSchema(form) THEN handleCalculate(form)
       ELSE UNCHANGED <<data, ret, called, results>>

\* form.reset({ dummy values }); onCalculate(form.getValues())
handleFillDummyValues ==
    /\ form' = DummyArm
    /\ edits' = 0
    /\ event' = "fill"
    /\ handleCalculate(form')

\* form.reset({ zeros }); onCalculate(form.getValues())
handleResetValues ==
    /\ form' = defaultValues
    /\ edits' = 0
    /\ event' = "reset"
    /\ handleCalculate(form')

\* the workbook is written to a file; the page keeps its state
handleExportToExcel ==
    /\ event' = "export"
    /\ UNCHANGED <<form, edits, data, ret, called, results>>

PageNext ==
    \/ onChange
    \/ handleSubmit
    \/ handleFillDummyValues
    \/ handleResetValues
    \/ handleExportToExcel

PageSpec == PageInit /\ [][PageNext]_vars

(***************************************************************************)
(* Vocabulary of the properties.  These definitions restate the contract   *)
(* of performCalculations independently of the code above.                 *)
(***************************************************************************)
Joints == 0..(NumJoints - 1)

\* the per-element constraints in the order of the contract
ElementFields ==
    <<"length", "radius", "mass", "bodyLength", "pivotPosition", "rpm",
      "gearRatio", "safetyFactor">>

\* the value of field f of link or motor i (0-based) of input d
FieldOf(d, i, f) ==
    IF f \in LinkFields THEN At(d.links, i)[f] ELSE At(d.motors, i)[f]

HasElement(d, i, f) ==
    IF f \in LinkFields THEN i < Len(d.links) ELSE i < Len(d.motors)

\* the 0-based indices of the links and motors of input d
Elements(d) ==
    0..((IF Len(d.links) < Len(d.motors) THEN Len(d.motors)
                                         ELSE Len(d.links)) - 1)

\* the constraint on field f of element i is violated
FieldViolated(d, i, f) ==
    /\ HasElement(d, i, f)
    /\ IF f \in LinkFields THEN Le(FieldOf(d, i, f), Zero)
       ELSE IF f = "safetyFactor" THEN Lt(FieldOf(d, i, f), Whole(1))
       ELSE Lt(FieldOf(d, i, f), Zero)

PayloadViolated(d) == Lt(d.m_payload, Zero)

DensityViolated(d) == Lt(d.density, Zero)

\* at least one of the field-level constraints is violated
SomeFieldViolated(d) ==
    \/ PayloadViolated(d)
    \/ DensityViolated(d)
    \/ \E i \in Elements(d), k \in 1..Len(ElementFields) :
          FieldViolated(d, i, ElementFields[k])

\* the input satisfies every validation constraint
Admitted(d) ==
    /\ ~PayloadViolated(d)
    /\ ~DensityViolated(d)
    /\ Len(d.links) = NumJoints
    /\ Len(d.motors) = NumJoints
    /\ \A i \in Joints, k \in 1..Len(ElementFields) :
          ~FieldViolated(d, i, ElementFields[k])

\* position of a check in the validation sequence: payloadMass, linkDensity,
\* link count, motor count, then the eight element checks of index 0, 1, ...
RankOf(i, k) == 4 + 8 * i + k

ViolatedRanks(d) ==
    (IF PayloadViolated(d) THEN {1} ELSE {})
    \cup (IF DensityViolated(d) THEN {2} ELSE {})
    \cup (IF Len(d.links) # NumJoints THEN {3} ELSE {})
    \cup (IF Len(d.motors) # NumJoints THEN {4} ELSE {})
    \cup {RankOf(e[1], e[2]) :
             e \in {x \in Joints \X (1..Len(ElementFields)) :
                       FieldViolated(d, x[1], ElementFields[x[2]])}}

Least(s) == CHOOSE n \in s : \A m \in s : n <= m

ElementText(f) ==
    CASE f = "length"        -> "Link # length must be positive"
      [] f = "radius"        -> "Link # radius must be positive"
      [] f = "mass"          -> "Motor # mass cannot be negative"
      [] f = "bodyLength"    -> "Motor # body length cannot be negative"
      [] f = "pivotPosition" -> "Motor # pivot position cannot be negative"
      [] f = "rpm"           -> "Motor # RPM cannot be negative"
      [] f = "gearRatio"     -> "Motor # gear ratio cannot be negative"
      [] f = "safetyFactor"  -> "Motor # safety factor must be at least 1"

\* the message that names field f of the 0-based element i by its 1-based index
NamesField(message, i, f) ==
    message = Message(ElementText(f), i + 1)

NamesPayload(message) == message = Message("Payload mass cannot be negative", 0)

NamesDensity(message) == message = Message("Density must be positive", 0)

SixLinks == Message("Exactly 6 links are required", 0)

SixMotors == Message("Exactly 6 motors are required", 0)

\* the message of the check at position n of the validation sequence
MessageOfRank(n) ==
    IF n = 1 THEN Message("Payload mass cannot be negative", 0)
    ELSE IF n = 2 THEN Message("Density must be positive", 0)
    ELSE IF n = 3 THEN SixLinks
    ELSE IF n = 4 THEN SixMotors
    ELSE Message(ElementText(ElementFields[((n - 5) % 8) + 1]),
                 ((n - 5) \div 8) + 1)

\* the value is an error object and carries no result list
IsErrorOnly(value) ==
    /\ ~value.isArray
    /\ value.items = <<>>
    /\ value.keys = {"error"}
    /\ value.error # NoMessage

\* the value is a list of six results and carries no error
IsSixResults(value) ==
    /\ value.isArray
    /\ Len(value.items) = NumJoints
    /\ value.keys = {}
    /\ value.error = NoMessage

\* the result the list holds for joint j: output position 5 - j
ResultOf(value, j) == At(value.items, NumJoints - 1 - j)

(***************************************************************************)
(* The single-loop reference of the torque computation                     *)
(***************************************************************************)
RECURSIVE Sum(_)
Sum(terms) == IF terms = <<>> THEN Zero ELSE Add(Head(terms), Sum(Tail(terms)))

Length(d, k) == At(d.links, k).length

Pivot(d, k) == At(d.motors, k).pivotPosition

\* S[k]: the distance from the base to the far end of link k
Reach(d, k) == Sum([n \in 1..(k + 1) |-> Length(d, n - 1)])

LinkWeight(d, k) ==
    Mul(Mul(g, pi),
        Mul(d.density, Mul(Sq(At(d.links, k).radius), Length(d, k))))

MotorWeight(d, k) == Mul(At(d.motors, k).mass, g)

PayloadTerm(d, j) ==
    Mul(Mul(d.m_payload, g), Sub(Reach(d, NumJoints - 1), Pivot(d, j)))

LinkTerm(d, j, k) ==
    Mul(LinkWeight(d, k),
        Sub(Reach(d, k), Add(Pivot(d, j), Div(Length(d, k), Whole(2)))))

MotorTerm(d, j, k) ==
    Mul(MotorWeight(d, k),
        Sub(Add(Pivot(d, k), Div(At(d.motors, k).bodyLength, Whole(2))),
            Pivot(d, j)))

\* payload, every link k >= j, every motor k > j
ReferenceTorque(d, j) ==
    Add(PayloadTerm(d, j),
        Add(Sum([n \in 1..(NumJoints - j) |-> LinkTerm(d, j, j + n - 1)]),
            Sum([n \in 1..(NumJoints - 1 - j) |-> MotorTerm(d, j, j + n)])))

\* the six figures of joint j, from the fields of motor j
ReferenceResult(d, j) ==
    LET m      == At(d.motors, j)
        total  == ReferenceTorque(d, j)
        before == IF m.gearRatio = Zero THEN Zero ELSE Div(total, m.gearRatio)
        power  == IF m.rpm = Zero THEN Zero
                  ELSE Div(Mul(Mul(before, m.rpm), Whole(1000)), Whole(9550))
    IN  [T_total     |-> total,
         T_sf        |-> Mul(m.safetyFactor, total),
         T_before    |-> before,
         T_before_sf |-> Mul(m.safetyFactor, before),
         P           |-> power,
         P_sf        |-> Mul(m.safetyFactor, power)]

(***************************************************************************)
(* Properties                                                              *)
(***************************************************************************)

\* C1: for every input that passes all validation checks the call returns
\* exactly 6 results, none missing, end-effector first: output position p
\* holds the result of joint 5 - p, computed from motor[5 - p].
C1_SixResultsEndEffectorFirst ==
    (called /\ Admitted(data)) =>
        /\ IsSixResults(ret)
        /\ \A p \in Joints :
              At(ret.items, p) = ReferenceResult(data, NumJoints - 1 - p)

\* a valid arm whose joints all differ has been computed
C1_Witness ==
    /\ called
    /\ data = MixedArm
    /\ IsSixResults(ret)
    /\ \A p, q \in Joints : p # q => At(ret.items, p) # At(ret.items, q)

\* some violated field-level constraint is named by the message, a link or
\* motor field together with the 1-based index of the element
NamesAViolatedField(message, d) ==
    \/ PayloadViolated(d) /\ NamesPayload(message)
    \/ DensityViolated(d) /\ NamesDensity(message)
    \/ \E i \in Elements(d), k \in 1..Len(ElementFields) :
          /\ FieldViolated(d, i, ElementFields[k])
          /\ NamesField(message, i, ElementFields[k])

\* C2 as stated: for every input in which at least one field-level
\* constraint is violated the call returns an error object and no result
\* list, the message names the violated field with the 1-based index of the
\* element, and a safetyFactor below 1 on motor i yields the safety factor
\* message with the number i + 1.
C2_Original ==
    (called /\ SomeFieldViolated(data)) =>
        /\ IsErrorOnly(ret)
        /\ NamesAViolatedField(ret.error, data)
        /\ \A i \in Joints :
              FieldViolated(data, i, "safetyFactor") =>
                  NamesField(ret.error, i, "safetyFactor")

\* C2 amended: for every input in which at least one field-level constraint
\* is violated the call returns an error object and no result list; when
\* the payload mass or the density is violated, or both sequences have 6
\* elements, the message names a violated field with the 1-based index of
\* the element, and otherwise it is the message of an element count; a
\* safetyFactor below 1 on motor i yields the safety factor message with the
\* number i + 1 when no check before it in the validation order fails.
C2_ErrorNamesViolatedField ==
    (called /\ SomeFieldViolated(data)) =>
        /\ IsErrorOnly(ret)
        /\ IF \/ PayloadViolated(data)
              \/ DensityViolated(data)
              \/ Len(data.links) = NumJoints /\ Len(data.motors) = NumJoints
           THEN NamesAViolatedField(ret.error, data)
           ELSE ret.error \in {SixLinks, SixMotors}
        /\ \A i \in Joints :
              Least(ViolatedRanks(data)) = RankOf(i, 8) =>
                  NamesField(ret.error, i, "safetyFactor")

\* a safety factor of 9/10 on the fourth motor of an otherwise valid arm has
\* been rejected with the safety factor message for motor 4
C2_Witness ==
    /\ called
    /\ Len(data.links) = NumJoints /\ Len(data.motors) = NumJoints
    /\ FieldOf(data, 3, "safetyFactor") = Num(9, 10)
    /\ ViolatedRanks(data) = {RankOf(3, 8)}
    /\ ret.error = Message("Motor # safety factor must be at least 1", 4)

\* C3: validation is fail-fast in a fixed order; of several violated checks
\* the error returned is the one of the earliest in the sequence
\* payloadMass, linkDensity, link count, motor count, then for i = 0..5 the
\* eight element checks of index i.
C3_EarliestViolationReported ==
    (called /\ ViolatedRanks(data) # {}) =>
        /\ IsErrorOnly(ret)
        /\ ret.error = MessageOfRank(Least(ViolatedRanks(data)))

\* a violation on a motor and one on the next link have both been present
\* and the motor's has been reported
C3_Witness ==
    /\ called
    /\ \E i \in 0..(NumJoints - 2), k \in 3..8, n \in 1..2 :
          /\ ViolatedRanks(data) = {RankOf(i, k), RankOf(i + 1, n)}
          /\ ret.error = MessageOfRank(RankOf(i, k))

\* C4: with non-negative payload mass and density, a links sequence that
\* has not exactly 6 elements yields the error about 6 links, and 6 links
\* with a motors sequence that has not exactly 6 elements yields the error
\* about 6 motors; no element field is checked (the error is the same
\* whatever the fields hold) and no result list is returned.
C4_CountErrors ==
    (called /\ ~PayloadViolated(data) /\ ~DensityViolated(data)) =>
        /\ Len(data.links) # NumJoints =>
              IsErrorOnly(ret) /\ ret.error = SixLinks
        /\ (Len(data.links) = NumJoints /\ Len(data.motors) # NumJoints) =>
              IsErrorOnly(ret) /\ ret.error = SixMotors

\* five links, one of them with an invalid field, and six motors have been
\* rejected with the message about 6 links
C4_Witness ==
    /\ called
    /\ Len(data.links) = NumJoints - 1
    /\ Len(data.motors) = NumJoints
    /\ \E i \in Joints : FieldViolated(data, i, "length")
    /\ ret.error = SixLinks

\* C5: for every valid input and every joint j the torqueTotal of the
\* hand-expanded block equals the single-loop reference: the payload term,
\* the term of every link k >= j and the term of every motor k > j (none of
\* a motor k <= j); for j = 5 only the payload term and the term of link 6.
C5_BlocksEqualSingleLoop ==
    (called /\ Admitted(data)) =>
        /\ \A j \in Joints :
              ResultOf(ret, j).T_total = ReferenceTorque(data, j)
        /\ ResultOf(ret, NumJoints - 1).T_total =
              Add(PayloadTerm(data, NumJoints - 1),
                  LinkTerm(data, NumJoints - 1, NumJoints - 1))

\* the arm of the dummy values has been computed, and the torque of its
\* end-effector joint is g*5*(1.8 - 1.7) + W_link6*(1.8 - 1.7 - 0.05)
C5_Witness ==
    /\ called
    /\ data = DummyArm
    /\ ret.isArray
    /\ ResultOf(ret, 5).T_total =
          Add(Mul(Mul(g, Whole(5)), Sub(Num(18, 10), Num(17, 10))),
              Mul(LinkWeight(DummyArm, 5),
                  Sub(Sub(Num(18, 10), Num(17, 10)), Num(5, 100))))
    /\ ResultOf(ret, 0).T_total # ResultOf(ret, 1).T_total

Payloads == {Whole(n) : n \in 0..MaxPayload}

\* the input that differs from d in the payload mass only
WithPayload(d, m) == [d EXCEPT !.m_payload = m]

TorqueOf(value, j) == ResultOf(value, j).T_total

\* the pair made of the input d, with its returned value, and the input
\* that differs from d in the payload mass m only, lighter payload first
PayloadPair(d, value, m) ==
    LET other == performCalculations(WithPayload(d, m))
    IN  IF Lt(d.m_payload, m) THEN <<value, other>> ELSE <<other, value>>

\* C6 as stated: of two inputs that pass validation and differ only in the
\* payload mass, the one with the larger payload mass has a strictly larger
\* torqueTotal at every one of the six joints.
C6_Original ==
    (called /\ Admitted(data)) =>
        \A m \in Payloads \ {data.m_payload} :
            LET pair == PayloadPair(data, ret, m)
            IN  \A j \in Joints :
                    Lt(TorqueOf(pair[1], j), TorqueOf(pair[2], j))

\* C6 amended: of two inputs that pass validation and differ only in the
\* payload mass, the one with the larger payload mass has a strictly larger
\* torqueTotal at every joint whose pivot lies before the tip of the arm
\* (pivotPosition[j] < S[5]), the same torqueTotal at a joint whose pivot is
\* at the tip, and a strictly smaller one at a joint whose pivot lies beyond
\* the tip.
C6_PayloadMonotoneBeforeTip ==
    (called /\ Admitted(data)) =>
        \A m \in Payloads \ {data.m_payload} :
            LET pair == PayloadPair(data, ret, m)
                tip  == Reach(data, NumJoints - 1)
            IN  \A j \in Joints :
                    LET lighter == TorqueOf(pair[1], j)
                        heavier == TorqueOf(pair[2], j)
                    IN  IF Lt(Pivot(data, j), tip) THEN Lt(lighter, heavier)
                        ELSE IF Pivot(data, j) = tip THEN lighter = heavier
                        ELSE Lt(heavier, lighter)

\* an arm with pivots before, at and beyond the tip has been computed with a
\* payload mass that a heavier payload of the sample exceeds
C6_Witness ==
    /\ called
    /\ Admitted(data)
    /\ ret.isArray
    /\ \E m \in Payloads : Lt(data.m_payload, m)
    /\ \E m \in Payloads : Lt(m, data.m_payload)
    /\ \E j \in Joints : Lt(Pivot(data, j), Reach(data, NumJoints - 1))
    /\ \E j \in Joints : Pivot(data, j) = Reach(data, NumJoints - 1)
    /\ \E j \in Joints : Lt(Reach(data, NumJoints - 1), Pivot(data, j))

GearRatio(d, j) == At(d.motors, j).gearRatio

Speed(d, j) == At(d.motors, j).rpm

SafetyFactor(d, j) == At(d.motors, j).safetyFactor

\* C7: for every valid input and every joint j, torqueBeforeGearing[j] is
\* torqueTotal[j] / gearRatio[j] when gearRatio[j] > 0 and 0 when
\* gearRatio[j] = 0, and a zero gear ratio raises no error.
C7_Gearing ==
    (called /\ Admitted(data)) =>
        /\ IsSixResults(ret)
        /\ \A j \in Joints :
              /\ Lt(Zero, GearRatio(data, j)) =>
                    ResultOf(ret, j).T_before =
                        Div(ResultOf(ret, j).T_total, GearRatio(data, j))
              /\ GearRatio(data, j) = Zero =>
                    ResultOf(ret, j).T_before = Zero

\* an arm with a zero gear ratio at a joint that carries torque, and a gear
\* ratio other than 0 and 1 at another such joint, has been computed
C7_Witness ==
    /\ called
    /\ ret.isArray
    /\ \E j \in Joints :
          /\ GearRatio(data, j) = Zero
          /\ ResultOf(ret, j).T_total # Zero
    /\ \E j \in Joints :
          /\ Lt(Whole(1), GearRatio(data, j))
          /\ ResultOf(ret, j).T_before # Zero
          /\ ResultOf(ret, j).T_before # ResultOf(ret, j).T_total

\* C8: for every valid input and every joint j, each figure with safety
\* factor is safetyFactor[j], the safety factor of the motor of that joint,
\* times its base figure: total torque, torque before gearing and power.
C8_SafetyFactorScaling ==
    (called /\ Admitted(data)) =>
        \A j \in Joints :
            LET res == ResultOf(ret, j)
                sf  == SafetyFactor(data, j)
            IN  /\ res.T_sf = Mul(sf, res.T_total)
                /\ res.T_before_sf = Mul(sf, res.T_before)
                /\ res.P_sf = Mul(sf, res.P)

\* an arm whose motors have six different safety factors and non-zero
\* torques and powers has been computed
C8_Witness ==
    /\ called
    /\ ret.isArray
    /\ \A j, k \in Joints :
          j # k => SafetyFactor(data, j) # SafetyFactor(data, k)
    /\ \A j \in Joints :
          ResultOf(ret, j).T_total # Zero /\ ResultOf(ret, j).P # Zero

\* C9: for every valid input and every joint j, power[j] is
\* torqueBeforeGearing[j] * rpm[j] * 1000 / 9550 when rpm[j] is not 0 and 0
\* when rpm[j] = 0; power[j] is also 0 whenever gearRatio[j] = 0.
C9_Power ==
    (called /\ Admitted(data)) =>
        \A j \in Joints :
            LET res == ResultOf(ret, j)
            IN  /\ Speed(data, j) # Zero =>
                      res.P = Div(Mul(Mul(res.T_before, Speed(data, j)),
                                      Whole(1000)), Whole(9550))
                /\ Speed(data, j) = Zero => res.P = Zero
                /\ GearRatio(data, j) = Zero => res.P = Zero

\* an arm has been computed that has a joint with non-zero power, a joint
\* with speed 0 and torque before gearing, and a joint with gear ratio 0 and
\* a speed
C9_Witness ==
    /\ called
    /\ ret.isArray
    /\ \E j \in Joints : ResultOf(ret, j).P # Zero
    /\ \E j \in Joints :
          Speed(data, j) = Zero /\ ResultOf(ret, j).T_before # Zero
    /\ \E j \in Joints :
          /\ GearRatio(data, j) = Zero
          /\ Speed(data, j) # Zero
          /\ ResultOf(ret, j).T_total # Zero

\* C10: the call is total: for every input it returns exactly one of two
\* shapes, a list of six results or an error object with the single field
\* error, never both and never a partial list; every input that satisfies
\* all validation constraints, zeros where permitted included, yields the
\* list.
C10_TotalTwoShapes ==
    called =>
        /\ IsSixResults(ret) \/ IsErrorOnly(ret)
        /\ ~(IsSixResults(ret) /\ IsErrorOnly(ret))
        /\ ret.isArray => Len(ret.items) = NumJoints
        /\ Admitted(data) => IsSixResults(ret)

\* the arm with every permitted zero has yielded six results
C10_Witness ==
    /\ called
    /\ data = IdleArm
    /\ \A j \in Joints : GearRatio(data, j) = Zero /\ Speed(data, j) = Zero
    /\ IsSixResults(ret)

(***************************************************************************)
(* Properties of the page                                                  *)
(***************************************************************************)

\* the page shows the error message / the results table
ShowsError(value) == Home(value).alert # <<>>

ShowsTable(value) == Home(value).table # <<>>

\* the handlers that the page calls calculation events
CalculationEvents == {"submit", "fill", "reset"}

\* C12 (as stated): after every calculation event on the page (Calculate
\* submit, Fill Dummy Values, Reset Values) the results state equals the
\* output of performCalculations on the values the form held at that
\* event, and no table stays visible or exportable once that output is an
\* error.
C12_Original ==
    event \in CalculationEvents =>
        /\ results = performCalculations(form)
        /\ ~performCalculations(form).isArray =>
              /\ ~ShowsTable(results)
              /\ resultData(results) = <<Headers>>

\* C12 (amended): the results state is null until a calculation has run
\* and afterwards equals the output of performCalculations on the argument
\* of the latest calculation that ran.  Fill Dummy Values and Reset Values
\* always run one on the values they put in the form; a Calculate submit
\* runs one on the form values when they satisfy formSchema and none
\* otherwise.  The error message and the table are never rendered
\* together, and when the results state is an error the message is shown,
\* no table is shown and the export holds the header row only.
C12_ResultsOfLatestCalculation ==
    /\ ~called => results = Null
    /\ called => results = performCalculations(data)
    /\ event \in {"fill", "reset"} => called /\ data = form
    /\ event = "submit" =>
          IF formSchema(form) THEN called /\ data = form ELSE data # form
    /\ ~(ShowsError(results) /\ ShowsTable(results))
    /\ (called /\ ~results.isArray) =>
          /\ IsErrorOnly(results)
          /\ Home(results).alert = <<results.error>>
          /\ ~ShowsTable(results)
          /\ resultData(results) = <<Headers>>

\* link 1 of the dummy arm was given the length 0 and submitted: the error
\* has replaced the list of the dummy values
C12_Witness ==
    /\ event = "submit"
    /\ form = SetValue(DummyArm, [on |-> "links", i |-> 0, field |-> "length"],
                       Zero)
    /\ data = form
    /\ NamesField(results.error, 0, "length")
    /\ ShowsError(results)
    /\ ~ShowsTable(results)

\* the cells of the row labelled n that show the figures of result
Shown(n, result) ==
    << n,
       toFixed(result.T_total, 2), toFixed(result.T_sf, 2),
       toFixed(result.T_before, 2), toFixed(result.T_before_sf, 2),
       toFixed(result.P, 2), toFixed(result.P_sf, 2) >>

\* C13: the results table and the exported sheet number the rows 1..6 by
\* position in the returned sequence: the row labelled n shows the figures
\* of joint 6 - n (row 1 the end-effector joint, input motor 6; row 6 the
\* base joint, input motor 1), and the rows are those of the calculator
\* output, none reordered, dropped or duplicated.
C13_RowsNumberedByPosition ==
    (called /\ results.isArray) =>
        /\ ShowsTable(results)
        /\ LET rows  == Home(results).table[1]
               sheet == resultData(results)
           IN  /\ Len(rows) = NumJoints
               /\ Len(sheet) = NumJoints + 1
               /\ sheet[1] = Headers
               /\ \A n \in 1..NumJoints :
                     /\ rows[n] = Shown(n, At(results.items, n - 1))
                     /\ rows[n] = Shown(n, ReferenceResult(data, NumJoints - n))
                     /\ sheet[n + 1] = rows[n]

\* the table of the dummy arm is on display and has been exported; its
\* first and last row show different figures
C13_Witness ==
    /\ event = "export"
    /\ called
    /\ data = DummyArm
    /\ results.isArray
    /\ ShowsTable(results)
    /\ Len(resultData(results)) = NumJoints + 1
    /\ resultData(results)[2][2] # resultData(results)[NumJoints + 1][2]

\* C14: Reset Values clears the results: after Reset Values the results
\* state is empty as in the initial state and neither a results table nor
\* an error message is shown.
C14_ResetClearsResults ==
    event = "reset" =>
        /\ results = Null
        /\ ~ShowsTable(results)
        /\ ~ShowsError(results)

\* the 0-based indices of the links with a length or a radius of 0
ZeroLinks(d) ==
    {i \in Joints : i < Len(d.links) /\
        (At(d.links, i).length = Zero \/ At(d.links, i).radius = Zero)}

\* C15: the validation of performCalculations is at least as strict as
\* formSchema and differs from it on link dimensions only: an input it
\* accepts satisfies formSchema, and an input that satisfies formSchema is
\* accepted unless a link length or radius is 0, in which case the call
\* returns the 'must be positive' error of the first such link.
C15_SchemaVersusCalculator ==
    called =>
        /\ ret.isArray => formSchema(data)
        /\ formSchema(data) =>
              IF ZeroLinks(data) = {} THEN IsSixResults(ret)
              ELSE LET i == Least(ZeroLinks(data))
                   IN  /\ IsErrorOnly(ret)
                       /\ IF At(data.links, i).length = Zero
                          THEN NamesField(ret.error, i, "length")
                          ELSE NamesField(ret.error, i, "radius")

\* an input that satisfies formSchema with two links of dimension 0, the
\* first of them not link 1, has been refused
C15_Witness ==
    /\ called
    /\ formSchema(data)
    /\ Cardinality(ZeroLinks(data)) = 2
    /\ Least(ZeroLinks(data)) > 0
    /\ IsErrorOnly(ret)

=============================================================================
